---- MODULE Spec2Model ----
(***************************************************************************)
(* A model of the dotfiles installer (src/dotfiles.py).                    *)
(*                                                                         *)
(*   SpecConfig  Config: the class attribute DEFAULT_CONFIG, the objects   *)
(*               built by Config.__init__, _merge_config and get, over a   *)
(*               heap of Python dict objects (dicts are held by reference).*)
(*   SpecFiles   FileManager: backup and symlink over a small filesystem,  *)
(*               symlink taken one statement at a time.                    *)
(*   SpecInstall main, the installer's profiles and clone_dotfiles, one    *)
(*               command at a time, over a small model of the dotfiles     *)
(*               repository, its remote and the machine.                   *)
(*   SpecComponents  ShellEnvironment.install and                          *)
(*               DesktopEnvironment.install, one command at a time.        *)
(*   SpecMenu    run_interactive alone, to the depth Python lets it recurse.*)
(*   SpecLog     the Logger objects of one process and the log files they  *)
(*               write.                                                    *)
(***************************************************************************)
EXTENDS Integers, Sequences, FiniteSets, TLC

VARIABLES
    heap,       \* Python dict objects by identity: heap[id] is a dict
    configs,    \* the Config instances built so far, oldest first
    fs,         \* the filesystem: what is at each path
    parentDir,  \* whether target.parent exists
    now,        \* the wall clock, in half seconds
    pc,         \* where FileManager.symlink stands ("idle": not in a call)
    call,       \* the FileManager call in progress or last made, with its arguments
    ret,        \* how the last call ended
    log,        \* the lines of the FileManager logger's log file
    step,       \* the action that led to this state
    repo,       \* the dotfiles repository at dotfiles_root
    remote,     \* the commit the remote's branch is at
    online,     \* whether an HTTP GET of the probe URL succeeds
    ipc,        \* where the installer process stands
    todo,       \* the steps of the profile still to run, next first
    events,     \* what this process did so far: steps, commands, output
    status,     \* "running", or how the process ended
    signal,     \* how the last run_command call ended
    runs,       \* how many installer processes were started
    edits,      \* how many changes the user and the remote made so far
    sync,       \* the clone_dotfiles call in progress: what it started from
    syncs,      \* the clone_dotfiles calls that returned, oldest first
    loggers,    \* the Logger objects built by this process, oldest first
    logfiles    \* the log files under /tmp: the lines of each, by name

configVars == <<heap, configs>>

fileVars == <<fs, parentDir, now, pc, call, ret, log, step>>

installVars == <<repo, remote, online, ipc, todo, events, status, signal, runs, edits, sync, syncs>>

logVars == <<loggers, logfiles>>

vars == <<heap, configs, fs, parentDir, now, pc, call, ret, log, step,
          repo, remote, online, ipc, todo, events, status, signal, runs, edits, sync, syncs,
          loggers, logfiles>>

(***************************************************************************)
(* Bounds                                                                  *)
(***************************************************************************)
MaxConfigs == 2

MaxNow == 3

MaxLog == 3

(***************************************************************************)
(* Python values.  A dict value is a reference to a heap object; every     *)
(* other value is held inline.                                             *)
(***************************************************************************)
Str(x) == [kind |-> "str", s |-> x, l |-> <<>>, ref |-> 0]

Null == [kind |-> "null", s |-> "", l |-> <<>>, ref |-> 0]

List(xs) == [kind |-> "list", s |-> "", l |-> xs, ref |-> 0]

DictRef(id) == [kind |-> "dict", s |-> "", l |-> <<>>, ref |-> id]

EmptyDict == [k \in {} |-> Null]

\* A value without its identity: what a caller can observe of it.
Desc(v) == [kind |-> v.kind, s |-> v.s, l |-> v.l]

FromDesc(d) == [kind |-> d.kind, s |-> d.s, l |-> d.l, ref |-> 0]

(***************************************************************************)
(* Config.DEFAULT_CONFIG: object 1 is the class attribute, object 2 the    *)
(* nested 'shell' dict it refers to.                                       *)
(***************************************************************************)
DefaultTools == <<"ripgrep", "fd", "bat", "eza", "fzf", "tmux", "neovim", "htop", "jq", "tldr">>

DefaultFonts == <<"FiraCode", "JetBrainsMono", "Iosevka">>

DEFAULT_CONFIG == 1

DefaultShell == 2

InitHeap ==
    << ( "dotfiles_root" :> Str("~/Work/.dotfiles") @@
         "backup_dir" :> Str("~/.dotfiles-backup") @@
         "shell" :> DictRef(DefaultShell) @@
         "tools" :> List(DefaultTools) @@
         "fonts" :> List(DefaultFonts) ),
       ( "default" :> Str("zsh") @@ "theme" :> Str("powerlevel10k") ) >>

(***************************************************************************)
(* A tree as data: the set of <<path, value>> of every node below the root *)
(* (inner dicts included, so that an empty dict is a node too).  This is   *)
(* what json.load reads from an override file, and what a dict object      *)
(* denotes when its references are followed.                               *)
(***************************************************************************)
RECURSIVE DenAt(_, _, _)
DenAt(h, id, p) ==
    UNION { {<<Append(p, k), Desc(h[id][k])>>} \cup
            (IF h[id][k].kind = "dict" THEN DenAt(h, h[id][k].ref, Append(p, k)) ELSE {})
          : k \in DOMAIN h[id] }

Den(h, id) == DenAt(h, id, <<>>)

Node(kind, s, l) == [kind |-> kind, s |-> s, l |-> l]

DictNode == Node("dict", "", <<>>)

\* The override files of the model: 'tools' absent, a list or null; 'shell'
\* absent, a scalar, or a mapping of 'theme' and 'rc'.
ToolsChoices ==
    { {}, {<<(<<"tools">>), Node("list", "", <<"ripgrep">>)>>}, {<<(<<"tools">>), Node("null", "", <<>>)>>} }

ThemeChoices ==
    { {},
      {<<(<<"shell", "theme">>), Node("str", "agnoster", <<>>)>>},
      {<<(<<"shell", "theme">>), Node("null", "", <<>>)>>},
      {<<(<<"shell", "theme">>), DictNode>>, <<(<<"shell", "theme", "name">>), Node("str", "p10k", <<>>)>>} }

RcChoices ==
    { {},
      {<<(<<"shell", "rc">>), Node("str", ".zshrc", <<>>)>>},
      {<<(<<"shell", "rc">>), Node("list", "", <<"a", "b">>)>>} }

ShellChoices ==
    { {}, {<<(<<"shell">>), Node("str", "bash", <<>>)>>} } \cup
    { {<<(<<"shell">>), DictNode>>} \cup t \cup r : t \in ThemeChoices, r \in RcChoices }

Overrides == { t \cup s : t \in ToolsChoices, s \in ShellChoices }

(***************************************************************************)
(* json.load: builds fresh dict objects for the tree read from the file.   *)
(* LoadTree(h, O, p) appends the object for the dict at path p of O (and   *)
(* those below it); the new object's id is Len(h) + 1.                     *)
(***************************************************************************)
RECURSIVE LoadTree(_, _, _)
RECURSIVE LoadKids(_, _, _, _)
LoadKids(h, O, id, kids) ==
    IF kids = {} THEN h
    ELSE LET e == CHOOSE x \in kids : TRUE
             k == e[1][Len(e[1])]
         IN  IF e[2].kind = "dict"
             THEN LET cid == Len(h) + 1
                      h1 == LoadTree(h, O, e[1])
                  IN  LoadKids([h1 EXCEPT ![id] = (k :> DictRef(cid)) @@ @], O, id, kids \ {e})
             ELSE LoadKids([h EXCEPT ![id] = (k :> FromDesc(e[2])) @@ @], O, id, kids \ {e})

LoadTree(h, O, p) ==
    LoadKids(Append(h, EmptyDict), O, Len(h) + 1,
             {e \in O : Len(e[1]) = Len(p) + 1 /\ SubSeq(e[1], 1, Len(p)) = p})

(***************************************************************************)
(* Config._merge_config(base, update): for each key of update, recurse     *)
(* when base holds a dict at the key and the update value is a dict,       *)
(* otherwise store the update value (a reference, for a dict) in base.     *)
(* base is changed in place.                                               *)
(***************************************************************************)
RECURSIVE MergeKeys(_, _, _, _)
MergeKeys(h, base, update, keys) ==
    IF keys = {} THEN h
    ELSE LET key == CHOOSE k \in keys : TRUE
             value == h[update][key]
             h1 == IF /\ key \in DOMAIN h[base]
                      /\ h[base][key].kind = "dict"
                      /\ value.kind = "dict"
                   THEN MergeKeys(h, h[base][key].ref, value.ref, DOMAIN h[value.ref])
                   ELSE [h EXCEPT ![base] = (key :> value) @@ @]
         IN  MergeKeys(h1, base, update, keys \ {key})

\* A merge that does not recurse (dict.update).
MergeConfigFlat(h, base, update) ==
    [h EXCEPT ![base] = h[update] @@ @]

MergeConfig(h, base, update) ==
    MergeKeys(h, base, update, DOMAIN h[update])

\* dict.copy(): a new object with the same keys and the same values, the
\* dict values being the same references.
DictCopy(h, id) == Append(h, h[id])

(***************************************************************************)
(* Config.get(key, default).  A dotted key is a string, modelled as the    *)
(* sequence of its pieces: key names and the separator ".".                *)
(***************************************************************************)
RECURSIVE Split(_)
Split(key) ==
    IF \A i \in 1..Len(key) : key[i] # "."
    THEN <<key>>
    ELSE LET i == CHOOSE j \in 1..Len(key) : key[j] = "." /\ \A m \in 1..(j - 1) : key[m] # "."
         IN  <<SubSeq(key, 1, i - 1)>> \o Split(SubSeq(key, i + 1, Len(key)))

\* The dict key a segment spells: the empty string, one name, or (two names
\* run together) a name no dict of the model holds.
SegKey(seg) ==
    IF Len(seg) = 0 THEN "" ELSE IF Len(seg) = 1 THEN seg[1] ELSE "<joined>"

RECURSIVE Walk(_, _, _, _)
Walk(h, value, keys, default) ==
    IF keys = <<>> THEN value
    ELSE IF value.kind = "dict"
         THEN LET k == SegKey(Head(keys))
                  v == IF k \in DOMAIN h[value.ref] THEN h[value.ref][k] ELSE Null
              IN  IF v.kind = "null" THEN default ELSE Walk(h, v, Tail(keys), default)
         ELSE default

Get(h, cfg, key, default) == Walk(h, DictRef(cfg), Split(key), default)

(***************************************************************************)
(* Config.__init__(config_file)                                            *)
(***************************************************************************)
\* What a Config instance is: its self.config object; with it, the inputs of
\* its construction (the override read, DEFAULT_CONFIG as it was then).
ConfigRecord(cfg, hasFile, O, D) ==
    [cfg |-> cfg, file |-> hasFile, override |-> O, defaults |-> D]

\* config_file is None, or names no existing file
ConfigNoFile ==
    /\ Len(configs) < MaxConfigs
    /\ heap' = DictCopy(heap, DEFAULT_CONFIG)
    /\ configs' = Append(configs, ConfigRecord(Len(heap) + 1, FALSE, {}, Den(heap, DEFAULT_CONFIG)))
    /\ UNCHANGED fileVars
    /\ UNCHANGED installVars
    /\ UNCHANGED logVars

\* config_file names a file holding the tree O
ConfigFromFile(O) ==
    /\ Len(configs) < MaxConfigs
    /\ LET cfg == Len(heap) + 1
           h1 == DictCopy(heap, DEFAULT_CONFIG)
           user_config == Len(h1) + 1
           h2 == LoadTree(h1, O, <<>>)
       IN  /\ heap' = MergeConfig(h2, cfg, user_config)
           /\ configs' = Append(configs, ConfigRecord(cfg, TRUE, O, Den(heap, DEFAULT_CONFIG)))
    /\ UNCHANGED fileVars
    /\ UNCHANGED installVars
    /\ UNCHANGED logVars

(***************************************************************************)
(* The filesystem.  A path is a name, or the backup sibling of a name with *)
(* a timestamp.  "src" is the source of a link, "tgt" its target; "gone"   *)
(* names nothing, so a link to it dangles.  tgt and its backups live in    *)
(* target.parent, which may not exist yet.                                 *)
(***************************************************************************)
Path(n) == [name |-> n, backup |-> FALSE, stamp |-> 0]

NoPath == Path("")

Source == Path("src")

Target == Path("tgt")

Gone == Path("gone")

\* path.parent / f"{path.name}.backup.{timestamp}"
BackupPath(p, t) == [name |-> p.name, backup |-> TRUE, stamp |-> t]

\* datetime.now().strftime('%Y%m%d_%H%M%S'): the clock cut to whole seconds
Timestamp(t) == t \div 2

Stamps == 0..Timestamp(MaxNow)

Paths == {Source, Target} \cup {BackupPath(p, t) : p \in {Source, Target}, t \in Stamps}

Absent == [kind |-> "absent", data |-> "", dest |-> NoPath]

File(c) == [kind |-> "file", data |-> c, dest |-> NoPath]

Dir(c) == [kind |-> "dir", data |-> c, dest |-> NoPath]

Link(p) == [kind |-> "link", data |-> "", dest |-> p]

Lookup(f, p) == IF p \in DOMAIN f THEN f[p] ELSE Absent

\* Path.resolve(): the path reached by following symlinks
RECURSIVE Follow(_, _, _)
Follow(f, p, n) ==
    IF Lookup(f, p).kind = "link" /\ n > 0 THEN Follow(f, Lookup(f, p).dest, n - 1) ELSE p

ResolvePath(f, p) == Follow(f, p, Cardinality(DOMAIN f))

\* What a path names once symlinks are followed (nothing, for a dangling
\* link or a loop of links)
Resolved(f, p) ==
    LET n == Lookup(f, ResolvePath(f, p)) IN IF n.kind = "link" THEN Absent ELSE n

\* Path.exists(), Path.is_symlink(), Path.is_dir()
Exists(f, p) == Resolved(f, p).kind # "absent"

IsSymlink(f, p) == Lookup(f, p).kind = "link"

IsDir(f, p) == Resolved(f, p).kind = "dir"

(***************************************************************************)
(* The dotfiles repository, and the installer process before main runs     *)
(***************************************************************************)
\* what is at dotfiles_root: kind is "absent", "dir" (a directory that is no
\* repository) or "repo"; head is the commit checked out, mod an uncommitted
\* change of a tracked file, untracked an untracked file, conflict an index
\* with unmerged paths, stash the stash entries, newest first
Repo(kind, head, mod, untracked, conflict, stash) ==
    [kind |-> kind, head |-> head, mod |-> mod, untracked |-> untracked,
     conflict |-> conflict, stash |-> stash]

NoRepo == Repo("absent", 0, FALSE, FALSE, FALSE, <<>>)

\* a stash entry: its message, the commit it was made on, and the
\* clone_dotfiles call that made it (0: it was there before any call)
StashEntry(label, base, by) == [label |-> label, base |-> base, by |-> by]

NoSignal == [cmd |-> "", check |-> TRUE, rc |-> 0, raised |-> "none"]

\* no log file of this program under /tmp yet
NoLogFiles == [t \in {} |-> <<>>]

NoSync == [repo |-> NoRepo, remote |-> 0, edits |-> 0, at |-> 0, run |-> 0]

InstallerIdle ==
    /\ repo = NoRepo
    /\ remote = 0
    /\ online = TRUE
    /\ ipc = "start"
    /\ todo = <<>>
    /\ events = <<>>
    /\ status = "running"
    /\ signal = NoSignal
    /\ runs = 0
    /\ edits = 0
    /\ sync = NoSync
    /\ syncs = <<>>
    /\ loggers = <<>>
    /\ logfiles = NoLogFiles

(***************************************************************************)
(* How a call ends, and the records of the log file                        *)
(***************************************************************************)
NoRet == [kind |-> "none", path |-> NoPath, exc |-> ""]

Returned(p) == [kind |-> "returned", path |-> p, exc |-> ""]

Raised(e) == [kind |-> "raised", path |-> NoPath, exc |-> e]

\* sys.exit(1)
Exited == [kind |-> "exit", path |-> NoPath, exc |-> "SystemExit(1)"]

LogRecord(level, text, a, b) == [level |-> level, text |-> text, a |-> a, b |-> b]

Call(op, source, target, backup, resolved, old) ==
    [op |-> op, source |-> source, target |-> target, backup |-> backup,
     resolved |-> resolved, old |-> old]

(***************************************************************************)
(* FileManager.backup(path): the filesystem, the result and the log lines  *)
(* it leaves, at clock t.                                                  *)
(*   shutil.copytree refuses a destination that exists (FileExistsError);  *)
(*   shutil.copy2 follows a symlink source, overwrites a destination file  *)
(*   and, given a destination directory, copies into it.                   *)
(***************************************************************************)
\* a backup that logs and answers without copying
BackupCopyNothing(f, path, t) ==
    [fs |-> f, ret |-> Returned(BackupPath(path, Timestamp(t))),
     out |-> <<LogRecord("success", "Backed up", path, BackupPath(path, Timestamp(t)))>>]

\* lines 317-326: the copy of an existing path
BackupCopy(f, path, t) ==
    LET backup_path == BackupPath(path, Timestamp(t))
        done == <<LogRecord("success", "Backed up", path, backup_path)>>
    IN  IF IsDir(f, path)
        THEN IF Lookup(f, backup_path).kind # "absent"
             THEN [fs |-> f, ret |-> Raised("FileExistsError"), out |-> <<>>]
             ELSE [fs |-> [f EXCEPT ![backup_path] = Dir(Resolved(f, path).data)],
                   ret |-> Returned(backup_path), out |-> done]
        ELSE IF Lookup(f, backup_path).kind = "dir"
        THEN [fs |-> [f EXCEPT ![backup_path] = Dir("mixed")],
              ret |-> Returned(backup_path), out |-> done]
        ELSE [fs |-> [f EXCEPT ![backup_path] = File(Resolved(f, path).data)],
              ret |-> Returned(backup_path), out |-> done]

\* a backup that answers a missing path with the backup path it would use
BackupOutcomeEager(f, path, t) ==
    IF ~Exists(f, path)
    THEN [fs |-> f, ret |-> Returned(BackupPath(path, Timestamp(t))), out |-> <<>>]
    ELSE BackupCopy(f, path, t)

BackupOutcome(f, path, t) ==
    IF ~Exists(f, path)
    THEN [fs |-> f, ret |-> Returned(path), out |-> <<>>]
    ELSE BackupCopy(f, path, t)

Backup(path) ==
    /\ pc = "idle"
    /\ Len(log) < MaxLog
    /\ LET r == BackupOutcome(fs, path, now)
       IN  /\ fs' = r.fs
           /\ ret' = r.ret
           /\ log' = log \o r.out
    /\ call' = Call("backup", NoPath, path, FALSE, NoPath, fs)
    /\ step' = "Backup"
    /\ UNCHANGED <<parentDir, now, pc>>
    /\ UNCHANGED configVars
    /\ UNCHANGED installVars
    /\ UNCHANGED logVars

(***************************************************************************)
(* FileManager.symlink(source, target, backup), statement by statement     *)
(***************************************************************************)
\* a check that never finds the source missing
SourceExistsAlways(f, source) == TRUE

\* source.exists(), source being resolved already
SourceExists(f, source) == Exists(f, source)

\* lines 330-335: resolve the source; a missing source is logged as an error,
\* and Logger.error exits the process
SymlinkEnter(source, target, backup) ==
    /\ pc = "idle"
    /\ Len(log) + 2 <= MaxLog
    /\ LET resolved == ResolvePath(fs, source)
       IN  /\ call' = Call("symlink", source, target, backup, resolved, fs)
           /\ IF SourceExists(fs, resolved)
              THEN /\ pc' = "line337"
                   /\ ret' = NoRet
                   /\ log' = log
              ELSE /\ pc' = "exited"
                   /\ ret' = Exited
                   /\ log' = Append(log, LogRecord("error", "Source does not exist", resolved, NoPath))
    /\ step' = "SymlinkEnter"
    /\ UNCHANGED <<fs, parentDir, now>>
    /\ UNCHANGED configVars
    /\ UNCHANGED installVars
    /\ UNCHANGED logVars

\* lines 337-339: back the target up when it exists or is a symlink
SymlinkBackup ==
    /\ pc = "line337"
    /\ IF Exists(fs, call.target) \/ IsSymlink(fs, call.target)
       THEN IF call.backup
            THEN LET r == BackupOutcome(fs, call.target, now)
                 IN  /\ fs' = r.fs
                     /\ log' = log \o r.out
                     /\ IF r.ret.kind = "raised"
                        THEN pc' = "idle" /\ ret' = r.ret
                        ELSE pc' = "line340" /\ ret' = ret
            ELSE pc' = "line340" /\ UNCHANGED <<fs, log, ret>>
       ELSE pc' = "line342" /\ UNCHANGED <<fs, log, ret>>
    /\ step' = "SymlinkBackup"
    /\ UNCHANGED <<parentDir, now, call>>
    /\ UNCHANGED configVars
    /\ UNCHANGED installVars
    /\ UNCHANGED logVars

\* line 340: target.unlink(), which removes a file or a symlink and raises on
\* a directory
SymlinkUnlink ==
    /\ pc = "line340"
    /\ IF Lookup(fs, call.target).kind = "dir"
       THEN pc' = "idle" /\ ret' = Raised("IsADirectoryError") /\ fs' = fs
       ELSE IF Lookup(fs, call.target).kind = "absent"
       THEN pc' = "idle" /\ ret' = Raised("FileNotFoundError") /\ fs' = fs
       ELSE pc' = "line342" /\ ret' = ret /\ fs' = [fs EXCEPT ![call.target] = Absent]
    /\ step' = "SymlinkUnlink"
    /\ UNCHANGED <<parentDir, now, call, log>>
    /\ UNCHANGED configVars
    /\ UNCHANGED installVars
    /\ UNCHANGED logVars

\* line 342: target.parent.mkdir(parents=True, exist_ok=True)
SymlinkMkdir ==
    /\ pc = "line342"
    /\ parentDir' = TRUE
    /\ pc' = "line343"
    /\ step' = "SymlinkMkdir"
    /\ UNCHANGED <<fs, now, call, ret, log>>
    /\ UNCHANGED configVars
    /\ UNCHANGED installVars
    /\ UNCHANGED logVars

\* lines 343-344: target.symlink_to(source), then the success line
SymlinkTo ==
    /\ pc = "line343"
    /\ IF Lookup(fs, call.target).kind # "absent"
       THEN /\ ret' = Raised("FileExistsError")
            /\ UNCHANGED <<fs, log>>
       ELSE /\ fs' = [fs EXCEPT ![call.target] = Link(call.resolved)]
            /\ log' = Append(log, LogRecord("success", "Created symlink", call.target, call.resolved))
            /\ ret' = Returned(NoPath)
    /\ pc' = "idle"
    /\ step' = "SymlinkTo"
    /\ UNCHANGED <<parentDir, now, call>>
    /\ UNCHANGED configVars
    /\ UNCHANGED installVars
    /\ UNCHANGED logVars

(***************************************************************************)
(* The environment: time passes; between calls the user edits a file.      *)
(***************************************************************************)
Contents == {"A", "B"}

Tick ==
    /\ pc # "exited"
    /\ now < MaxNow
    /\ now' = now + 1
    /\ step' = "Tick"
    /\ UNCHANGED <<fs, parentDir, pc, call, ret, log>>
    /\ UNCHANGED configVars
    /\ UNCHANGED installVars
    /\ UNCHANGED logVars

Edit(p, c) ==
    /\ pc = "idle"
    /\ Lookup(fs, p).kind = "file"
    /\ Lookup(fs, p).data # c
    /\ fs' = [fs EXCEPT ![p] = File(c)]
    /\ step' = "Edit"
    /\ UNCHANGED <<parentDir, now, pc, call, ret, log>>
    /\ UNCHANGED configVars
    /\ UNCHANGED installVars
    /\ UNCHANGED logVars

\* The filesystems a run may start from: no backups yet; the source absent, a
\* file or a directory; the target absent (with or without its parent
\* directory), a file, a directory, a symlink to the source or a dangling one.
InitialFilesystems ==
    { [p \in Paths |-> IF p = Source THEN s ELSE IF p = Target THEN t ELSE Absent]
      : s \in {Absent, File("A"), Dir("S")},
        t \in {Absent, File("B"), Dir("T"), Link(Source), Link(Gone)} }

InitFiles ==
    /\ heap = InitHeap
    /\ configs = <<>>
    /\ fs \in InitialFilesystems
    /\ parentDir \in BOOLEAN
    /\ (~parentDir => fs[Target] = Absent)
    /\ now = 0
    /\ pc = "idle"
    /\ call = Call("none", NoPath, NoPath, FALSE, NoPath, fs)
    /\ ret = NoRet
    /\ log = <<>>
    /\ step = "Init"
    /\ InstallerIdle

NextFiles ==
    \/ \E b \in BOOLEAN : SymlinkEnter(Source, Target, b)
    \/ SymlinkBackup
    \/ SymlinkUnlink
    \/ SymlinkMkdir
    \/ SymlinkTo
    \/ \E p \in {Source, Target} : Backup(p)
    \/ Tick
    \/ \E p \in {Source, Target}, c \in Contents : Edit(p, c)

SpecFiles == InitFiles /\ [][NextFiles]_vars

(***************************************************************************)
(* Claims about FileManager (checked under SpecFiles).  A claim about what *)
(* a call does relates the state before a step to the state after it;      *)
(* call.old is the filesystem when the call was entered.                   *)
(***************************************************************************)
\* the backup artifacts of path p present in filesystem f
Artifacts(f, p) == {q \in DOMAIN f : q.backup /\ q.name = p.name /\ f[q].kind # "absent"}

\* C4: backup(path) on a path that does not exist returns that path and
\* leaves the filesystem (and the log file) unchanged.
C4_BackupAbsentNoChange ==
    [][(step' = "Backup" /\ ~Exists(fs, call'.target)) =>
          /\ ret' = Returned(call'.target)
          /\ fs' = fs
          /\ parentDir' = parentDir
          /\ log' = log]_vars

\* backup has just returned for a path that does not exist
C4_Witness ==
    /\ step = "Backup"
    /\ Lookup(call.old, call.target).kind = "absent"
    /\ ret = Returned(call.target)
    /\ fs = call.old

\* C5: backup(path) on an existing file creates exactly one new sibling
\* <name>.backup.<timestamp> holding the file's content, returns its path and
\* leaves the file unchanged.
C5_BackupCreatesOneSibling ==
    [][(step' = "Backup" /\ Lookup(fs, call'.target).kind = "file") =>
          LET path == call'.target
              new == {q \in DOMAIN fs : fs[q].kind = "absent" /\ fs'[q].kind # "absent"}
          IN  \E t \in Stamps :
                  /\ new = {BackupPath(path, t)}
                  /\ fs'[BackupPath(path, t)] = File(fs[path].data)
                  /\ ret' = Returned(BackupPath(path, t))
                  /\ fs'[path] = fs[path]]_vars

SymlinkReturns == step' = "SymlinkTo" /\ ret'.kind = "returned"

\* after the step: exactly one backup artifact of the target exists, it holds
\* the target's prior content, and the target is a symlink resolving to source
OneBackupAndLinked ==
    /\ \E q \in DOMAIN fs : /\ Artifacts(fs', call.target) = {q}
                            /\ fs'[q] = File(call.old[call.target].data)
    /\ fs'[call.target].kind = "link"
    /\ ResolvePath(fs', call.target) = ResolvePath(fs', call.source)

\* C7 as stated: after symlink(source, target) with backup on, source
\* existing and target a regular file before the call, exactly one backup
\* artifact of target exists, holding the prior content, and target is a
\* symlink resolving to source.
C7_ExactlyOneBackup ==
    [][(SymlinkReturns /\ call.backup /\ Lookup(call.old, call.target).kind = "file") =>
          OneBackupAndLinked]_vars

\* C7 amended: the same, when no backup artifact of target existed before the
\* call.
C7_ExactlyOneBackupWhenNoneBefore ==
    [][(/\ SymlinkReturns
        /\ call.backup
        /\ Lookup(call.old, call.target).kind = "file"
        /\ Artifacts(call.old, call.target) = {}) =>
          OneBackupAndLinked]_vars

\* symlink has just returned, with backup on, over a regular file that had no
\* backup artifact
C7_Witness ==
    /\ step = "SymlinkTo"
    /\ ret.kind = "returned"
    /\ call.backup
    /\ Lookup(call.old, call.target).kind = "file"
    /\ Artifacts(call.old, call.target) = {}
    /\ Cardinality(Artifacts(fs, call.target)) = 1

\* C8: in symlink with backup on, once a pre-existing target (file,
\* directory, symlink, dangling symlink) has been removed, a backup artifact
\* of it is on disk.
C8_BackupBeforeRemoval ==
    (/\ call.op = "symlink"
     /\ call.backup
     /\ Lookup(call.old, call.target).kind # "absent"
     /\ pc \in {"line342", "line343"}) =>
        Artifacts(fs, call.target) # {}

\* C9: for every existing source and every kind of target, with backup on or
\* off, symlink completes with target a symlink to the resolved source; with
\* backup off no backup artifact is created.
C9_SymlinkAlwaysCompletes ==
    [][(/\ call.op = "symlink"
        /\ pc \in {"line337", "line340", "line342", "line343"}
        /\ pc' = "idle") =>
          /\ ret'.kind = "returned"
          /\ fs'[call.target] = Link(call.resolved)
          /\ (~call.backup => Artifacts(fs', call.target) = Artifacts(call.old, call.target))]_vars

\* C10: when source does not exist, symlink writes one error record and
\* changes nothing else: the filesystem and target.parent are as before and
\* no later statement of symlink runs.
C10_MissingSourceOnlyReports ==
    [][(step' = "SymlinkEnter" /\ ~Exists(fs, call'.source)) =>
          /\ Len(log') = Len(log) + 1
          /\ SubSeq(log', 1, Len(log)) = log
          /\ log'[Len(log')].level = "error"
          /\ fs' = fs
          /\ parentDir' = parentDir
          /\ pc' \notin {"line337", "line340", "line342", "line343"}]_vars

\* symlink was called with a missing source over an existing target file,
\* which is still there
C10_Witness ==
    /\ step = "SymlinkEnter"
    /\ ~Exists(call.old, call.source)
    /\ Lookup(call.old, call.target).kind = "file"
    /\ fs = call.old
    /\ Len(log) > 0
    /\ log[Len(log)].level = "error"

(***************************************************************************)
(* Claims about Config (checked under SpecConfig)                          *)
(***************************************************************************)
MaxSegments == 4

KeyNames == {"shell", "theme", "name", "tools", "nosuch"}

Segments == {<<>>} \cup {<<n>> : n \in KeyNames}

RECURSIVE Join(_)
Join(ss) == IF Len(ss) = 1 THEN ss[1] ELSE ss[1] \o <<".">> \o Join(Tail(ss))

\* The dotted keys asked for: up to MaxSegments segments, empty ones included.
DottedKeys == {Join(ss) : ss \in UNION {[1..n -> Segments] : n \in 1..MaxSegments}}

Fallbacks == {Null, Str("fallback")}

KeyPath(key) == [i \in 1..Len(Split(key)) |-> SegKey(Split(key)[i])]

HasPath(T, q) == \E e \in T : e[1] = q

IsDictAt(T, q) == \E e \in T : e[1] = q /\ e[2].kind = "dict"

\* The recursive key-wise union of two trees, stated on their nodes: every
\* node of the override is in it, and a node of the defaults is in it unless
\* the override holds something at the node's path or above it that is not a
\* mapping on both sides.
KeywiseUnion(D, O) ==
    O \cup { e \in D : \A n \in 1..Len(e[1]) :
                 LET q == SubSeq(e[1], 1, n)
                 IN  HasPath(O, q) => (IsDictAt(O, q) /\ IsDictAt(D, q)) }

LastConfig == configs[Len(configs)]

\* C1: the configuration a Config is built with is the recursive key-wise
\* union of DEFAULT_CONFIG (as it is when the Config is built) and the
\* override tree: default-only keys keep their value, keys that are mappings
\* on both sides are merged key by key, every other override value replaces
\* the default wholesale (a list is replaced, never concatenated).
C1_MergeIsKeywiseUnion ==
    Len(configs) > 0 =>
        Den(heap, LastConfig.cfg) = KeywiseUnion(LastConfig.defaults, LastConfig.override)

\* A Config just built from a file that overrides the tools list and adds
\* shell.rc next to the default shell.default.
C1_Witness ==
    /\ Len(configs) > 0
    /\ LastConfig.file
    /\ <<(<<"tools">>), Node("list", "", <<"ripgrep">>)>> \in LastConfig.override
    /\ <<(<<"shell", "rc">>), Node("str", ".zshrc", <<>>)>> \in LastConfig.override
    /\ <<(<<"shell", "default">>), Node("str", "zsh", <<>>)>> \in Den(heap, LastConfig.cfg)
    /\ <<(<<"shell", "rc">>), Node("str", ".zshrc", <<>>)>> \in Den(heap, LastConfig.cfg)
    /\ <<(<<"tools">>), Node("list", "", <<"ripgrep">>)>> \in Den(heap, LastConfig.cfg)

\* C2: the built-in defaults are immutable: a Config built with no override
\* file, after any sequence of Config constructions, returns for every dotted
\* key what the compiled-in defaults hold.
C2_DefaultsImmutable ==
    (Len(configs) > 0 /\ ~LastConfig.file) =>
        \A key \in DottedKeys :
            Desc(Get(heap, LastConfig.cfg, key, Null)) = Desc(Get(InitHeap, DEFAULT_CONFIG, key, Null))

\* C3: Config.get returns the fallback when a segment is missing or the
\* value before the last segment is not a mapping, and the stored value for
\* every key whose full path is present.
C3_GetStoredOrFallback ==
    \A i \in 1..Len(configs) :
        LET T == Den(heap, configs[i].cfg)
        IN  \A key \in DottedKeys, fb \in Fallbacks :
                LET r == Get(heap, configs[i].cfg, key, fb)
                IN  IF HasPath(T, KeyPath(key))
                    THEN <<KeyPath(key), Desc(r)>> \in T
                    ELSE r = fb

InitConfig ==
    /\ heap = InitHeap
    /\ configs = <<>>
    /\ fs = [p \in Paths |-> Absent]
    /\ parentDir = TRUE
    /\ now = 0
    /\ pc = "idle"
    /\ call = Call("none", NoPath, NoPath, FALSE, NoPath, fs)
    /\ ret = NoRet
    /\ log = <<>>
    /\ step = "Init"
    /\ InstallerIdle

NextConfig ==
    \/ ConfigNoFile
    \/ \E O \in Overrides : ConfigFromFile(O)

SpecConfig == InitConfig /\ [][NextConfig]_vars

(***************************************************************************)
(* The installer: main, the profiles of DotfilesInstaller and              *)
(* clone_dotfiles, one external command at a time.                         *)
(***************************************************************************)
MaxRuns == 2

MaxCommits == 2

MaxEdits == 1

MaxMenus == 2

\* what a process leaves in events
Stepped(name) == [kind |-> "step", what |-> name]

Cmd(argv) == [kind |-> "cmd", what |-> argv]

Download(what) == [kind |-> "download", what |-> what]

Probe(url) == [kind |-> "probe", what |-> url]

Logged(level, text) == [kind |-> level, what |-> text]

Printed(text) == [kind |-> "print", what |-> text]

MenuShown == [kind |-> "menu", what |-> "Choice: "]

\* the command line the process was started with: sys.argv[1], if any
Started(argv) ==
    IF Len(argv) > 0 THEN [kind |-> "argv", what |-> argv[1]] ELSE [kind |-> "noargv", what |-> ""]

\* the message of the stash entry clone_dotfiles makes
AutoStash == "Auto-stash before pull"

\* Logger.error(message, exit): the default of exit
ErrorExitDefault == TRUE

\* Logger.error: after the record is written, sys.exit(1) when exit is true
LoggerError(exit) == IF exit THEN "SystemExit" ELSE "none"

\* run_command that hands the CalledProcessError of a failed command to its caller
RunCommandRaising(cmd, check, rc) ==
    [cmd |-> cmd, check |-> check, rc |-> rc,
     raised |-> IF rc = 0 \/ ~check THEN "none" ELSE "CalledProcessError"]

\* run_command(cmd, check): how the call ends for the exit code rc.  A
\* non-zero exit with check true makes subprocess.run raise
\* CalledProcessError; the handler calls Logger().error(error_msg) before
\* its raise statement.
RunCommand(cmd, check, rc) ==
    [cmd |-> cmd, check |-> check, rc |-> rc,
     raised |-> IF rc = 0 \/ ~check
                THEN "none"
                ELSE IF LoggerError(ErrorExitDefault) = "SystemExit"
                     THEN "SystemExit"
                     ELSE "CalledProcessError"]

\* what run_command leaves in events: the command, and the error record
RunEvents(sig) ==
    <<Cmd(sig.cmd)>> \o
    (IF sig.raised = "none" THEN <<>> ELSE <<Logged("error", "Command failed: " \o sig.cmd)>>)

(***************************************************************************)
(* git, as far as clone_dotfiles uses it: the results a command may have   *)
(* in repository r (rc its exit code, repo the repository after it, out    *)
(* its standard output).  A command that reaches the remote may fail.      *)
(***************************************************************************)
Result(rc, r, out) == [rc |-> rc, repo |-> r, out |-> out]

GitRevParse(r) == IF r.kind = "repo" THEN {Result(0, r, "")} ELSE {Result(1, r, "")}

\* a status that reports every working tree as dirty
GitStatusAlwaysDirty(r) == { Result(0, r, "dirty"), Result(1, r, "") }

GitStatus(r) ==
    { Result(0, r, IF r.mod \/ r.untracked \/ r.conflict THEN "dirty" ELSE ""),
      Result(1, r, "") }

\* git stash push saves tracked changes only; with nothing to save it exits
\* 0 and makes no entry; with unmerged paths it fails
GitStashPush(r, label, by) ==
    IF r.conflict
    THEN {Result(1, r, "")}
    ELSE { Result(0, IF r.mod
                     THEN [r EXCEPT !.mod = FALSE,
                                    !.stash = <<StashEntry(label, r.head, by)>> \o @]
                     ELSE r, ""),
           Result(1, r, "") }

GitPull(r, rem) == { Result(0, [r EXCEPT !.head = rem], ""), Result(1, r, "") }

Labels(st) == [i \in DOMAIN st |-> st[i].label]

GitStashList(r) == { Result(0, r, Labels(r.stash)) }

\* git stash apply: the entry is applied and kept
GitStashApply(r) ==
    IF r.stash = <<>> THEN {Result(1, r, "")} ELSE {Result(0, [r EXCEPT !.mod = TRUE], "")}

\* git stash pop applies and drops the newest entry; on a conflict (possible
\* when the head moved since the entry was made) it exits 1, keeps the entry
\* and leaves unmerged paths
GitStashPop(r) ==
    IF r.stash = <<>>
    THEN {Result(1, r, "")}
    ELSE { Result(0, [r EXCEPT !.mod = TRUE, !.stash = Tail(@)], "") }
         \cup (IF Head(r.stash).base # r.head
               THEN {Result(1, [r EXCEPT !.mod = TRUE, !.conflict = TRUE], "")}
               ELSE {})

GitClone(r, rem) ==
    IF r.kind = "absent"
    THEN { Result(0, Repo("repo", rem, FALSE, FALSE, FALSE, <<>>), ""), Result(1, r, "") }
    ELSE {Result(1, r, "")}

(***************************************************************************)
(* The process: where it goes next                                         *)
(***************************************************************************)
Outcome(to, st, logs) == [ipc |-> to, status |-> st, logs |-> logs]

Exit1(logs) == Outcome("done", "exit1", logs)

Proc(to, rest, ev, st) ==
    /\ ipc' = to
    /\ todo' = rest
    /\ events' = events \o ev
    /\ status' = st

\* a step of the profile returns: the next step starts, or main returns
Return(ev) ==
    IF todo = <<>>
    THEN Proc("done", <<>>, ev, "returned")
    ELSE Proc(Head(todo), Tail(todo), ev, "running")

Enter(steps, ev) == Proc(Head(steps), Tail(steps), ev, "running")

Goto(out, ev) == Proc(out.ipc, todo, ev \o out.logs, out.status)

\* the try block of lines 711-741 around the commands of an update
TryUpdate(sig, next) ==
    IF sig.raised = "none" THEN Outcome(next, "running", <<>>)
    ELSE IF sig.raised = "SystemExit" THEN Exit1(<<>>)
    ELSE IF LoggerError(ErrorExitDefault) = "SystemExit"
         THEN Exit1(<<Logged("error", "Failed to update repository")>>)
         ELSE Outcome("line751", "running",
                      << Logged("error", "Failed to update repository"),
                         Logged("info", "Continuing with existing dotfiles...") >>)

\* the try block of lines 730-734 around git stash pop
TryPop(sig) ==
    IF sig.raised = "none" THEN Outcome("line751", "running", <<>>)
    ELSE IF sig.raised = "SystemExit" THEN Exit1(<<>>)
    ELSE Outcome("line751", "running",
                 << Logged("warning", "Conflicts detected when applying stash. Please resolve manually."),
                    Logged("info", "Run 'git stash pop' in the dotfiles directory to apply changes") >>)

\* a clone whose failure is swallowed: clone_dotfiles goes on to line 751
TryCloneLenient(sig) == Outcome("line751", "running", <<>>)

\* the try block of lines 745-749 around git clone
TryClone(sig) ==
    IF sig.raised = "none" THEN Outcome("line751", "running", <<>>)
    ELSE IF sig.raised = "SystemExit" THEN Exit1(<<>>)
    ELSE IF LoggerError(ErrorExitDefault) = "SystemExit"
         THEN Exit1(<<Logged("error", "Failed to clone repository")>>)
         ELSE Outcome("done", "raised", <<Logged("error", "Failed to clone repository")>>)

(***************************************************************************)
(* main and the profiles                                                   *)
(***************************************************************************)
Flags == {"--help", "-h", "--full", "--shell", "--python", "--bogus"}

\* sys.argv[1:2]
Argvs == {<<>>} \cup {<<a>> : a \in Flags}

Choices == {"1", "2", "3", "4", "q", "Q", "x"}

\* a full profile that installs the shell environment before the system packages
FullStepsShellFirst(desktop) ==
    << "check_prerequisites", "setup_directories", "clone_dotfiles",
       "shell_env.install", "install_system_packages", "python_env.install" >>
    \o (IF desktop THEN <<"desktop_env.install">> ELSE <<>>)
    \o <<"show_completion">>

FullSteps(desktop) ==
    << "check_prerequisites", "setup_directories", "clone_dotfiles",
       "install_system_packages", "shell_env.install", "python_env.install" >>
    \o (IF desktop THEN <<"desktop_env.install">> ELSE <<>>)
    \o <<"show_completion">>

ShellSteps ==
    << "check_prerequisites", "setup_directories", "clone_dotfiles",
       "shell_env.install", "show_completion" >>

PythonSteps == <<"check_prerequisites", "python_env.install", "show_completion">>

\* what the menu runs for choice 4
DesktopSteps == <<"desktop_env.install">>

Usage == "Usage"

\* a main that treats every argument it does not know as --full
MainLenient(argv, desktop) ==
    /\ ipc = "start"
    /\ status = "running"
    /\ runs < MaxRuns
    /\ runs' = runs + 1
    /\ IF argv = <<>> THEN Proc("menu", <<>>, <<Started(argv)>>, "running")
       ELSE IF argv[1] \in {"--help", "-h"}
            THEN Proc("done", <<>>, <<Started(argv), Printed(Usage)>>, "exit0")
       ELSE IF argv[1] = "--shell" THEN Enter(ShellSteps, <<Started(argv)>>)
       ELSE IF argv[1] = "--python" THEN Enter(PythonSteps, <<Started(argv)>>)
       ELSE Enter(FullSteps(desktop), <<Started(argv)>>)
    /\ UNCHANGED <<repo, remote, online, signal, edits, sync, syncs>>
    /\ UNCHANGED <<configVars, fileVars, logVars>>

\* main, lines 937-960; desktop is what SystemInfo detected (read on line 780)
Main(argv, desktop) ==
    /\ ipc = "start"
    /\ status = "running"
    /\ runs < MaxRuns
    /\ runs' = runs + 1
    /\ IF Len(argv) > 0
       THEN IF argv[1] \in {"--help", "-h"}
            THEN Proc("done", <<>>, <<Started(argv), Printed(Usage)>>, "exit0")
            ELSE IF argv[1] = "--full" THEN Enter(FullSteps(desktop), <<Started(argv)>>)
            ELSE IF argv[1] = "--shell" THEN Enter(ShellSteps, <<Started(argv)>>)
            ELSE IF argv[1] = "--python" THEN Enter(PythonSteps, <<Started(argv)>>)
            ELSE Proc("done", <<>>, <<Started(argv), Printed("Unknown option: " \o argv[1])>>, "exit1")
       ELSE Proc("menu", <<>>, <<Started(argv)>>, "running")
    /\ UNCHANGED <<repo, remote, online, signal, edits, sync, syncs>>
    /\ UNCHANGED <<configVars, fileVars, logVars>>

MenusShown == Cardinality({i \in DOMAIN events : events[i] = MenuShown})

\* run_interactive calls itself after an invalid choice (line 834): the
\* number of nested calls in which show_menu still completes under
\* sys.getrecursionlimit() = 1000, as the interpreter counts its frames
RecursionDepth == 989

Traceback(exc) == [kind |-> "traceback", what |-> exc]

\* run_interactive, lines 816-834, with the answer given to show_menu; in a
\* call nested too deep, show_menu raises RecursionError before it prints
\* the options
RunInteractive(choice, desktop) ==
    /\ ipc = "menu"
    /\ IF MenusShown >= RecursionDepth THEN Proc("done", <<>>, <<Traceback("RecursionError")>>, "raised")
       ELSE IF choice = "1" THEN Enter(FullSteps(desktop), <<MenuShown>>)
       ELSE IF choice = "2" THEN Enter(ShellSteps, <<MenuShown>>)
       ELSE IF choice = "3" THEN Enter(PythonSteps, <<MenuShown>>)
       ELSE IF choice = "4" THEN Enter(DesktopSteps, <<MenuShown>>)
       ELSE IF choice \in {"q", "Q"}
            THEN Proc("done", <<>>, <<MenuShown, Logged("info", "Installation cancelled")>>, "exit0")
            ELSE Proc("menu", <<>>, <<MenuShown, Logged("warning", "Invalid choice")>>, "running")
    /\ UNCHANGED <<repo, remote, online, signal, runs, edits, sync, syncs>>
    /\ UNCHANGED <<configVars, fileVars, logVars>>

\* check_prerequisites, lines 674-682: git or curl missing (missing) on a
\* machine with or without a package manager (manager); rcU and rcI are the
\* exit codes of the update and install commands
CheckPrerequisitesInstall(missing, manager, rcU, rcI) ==
    /\ ipc = "check_prerequisites"
    /\ LET st == <<Stepped("check_prerequisites")>>
           up == RunCommand("pm update", TRUE, rcU)
           ins == RunCommand("pm install", TRUE, rcI)
       IN  IF ~missing
           THEN /\ Proc("line684", todo, st, "running")
                /\ signal' = signal
           ELSE IF ~manager
           THEN \* PackageManager.update warns, PackageManager.install calls Logger.error
                /\ signal' = signal
                /\ IF LoggerError(ErrorExitDefault) = "SystemExit"
                   THEN Proc("done", todo,
                             st \o << Logged("warning", "No package manager found"),
                                      Logged("error", "No package manager found") >>, "exit1")
                   ELSE Proc("line684", todo,
                             st \o << Logged("warning", "No package manager found"),
                                      Logged("error", "No package manager found") >>, "running")
           ELSE IF up.raised # "none"
           THEN /\ signal' = up
                /\ Proc("done", todo, st \o RunEvents(up),
                        IF up.raised = "SystemExit" THEN "exit1" ELSE "raised")
           ELSE /\ signal' = ins
                /\ IF ins.raised = "none"
                   THEN Proc("line684", todo, st \o RunEvents(up) \o RunEvents(ins), "running")
                   ELSE Proc("done", todo, st \o RunEvents(up) \o RunEvents(ins),
                             IF ins.raised = "SystemExit" THEN "exit1" ELSE "raised")
    /\ UNCHANGED <<repo, remote, online, runs, edits, sync, syncs>>
    /\ UNCHANGED <<configVars, fileVars, logVars>>

\* check_internet: one GET of the probe URL
CheckInternet == online

\* check_prerequisites, lines 684-687
CheckPrerequisitesProbe ==
    /\ ipc = "line684"
    /\ LET pr == <<Probe("https://www.google.com")>>
       IN  IF ~CheckInternet
           THEN IF LoggerError(ErrorExitDefault) = "SystemExit"
                THEN Proc("done", todo, pr \o <<Logged("error", "Internet connection required")>>, "exit1")
                ELSE Return(pr \o << Logged("error", "Internet connection required"),
                                     Logged("success", "Prerequisites satisfied") >>)
           ELSE Return(pr \o <<Logged("success", "Prerequisites satisfied")>>)
    /\ UNCHANGED <<repo, remote, online, signal, runs, edits, sync, syncs>>
    /\ UNCHANGED <<configVars, fileVars, logVars>>

\* setup_directories, lines 689-703
SetupDirectories ==
    /\ ipc = "setup_directories"
    /\ Return(<<Stepped("setup_directories")>>)
    /\ UNCHANGED <<repo, remote, online, signal, runs, edits, sync, syncs>>
    /\ UNCHANGED <<configVars, fileVars, logVars>>

\* a step of a profile that runs one command through run_command
CommandStep(name, cmd, rc) ==
    LET sig == RunCommand(cmd, TRUE, rc)
    IN  /\ signal' = sig
        /\ IF sig.raised = "none"
           THEN Return(<<Stepped(name)>> \o RunEvents(sig))
           ELSE Proc("done", todo, <<Stepped(name)>> \o RunEvents(sig),
                     IF sig.raised = "SystemExit" THEN "exit1" ELSE "raised")

\* install_system_packages, lines 753-769
InstallSystemPackages(manager, rc) ==
    /\ ipc = "install_system_packages"
    /\ IF manager
       THEN CommandStep("install_system_packages", "pm install", rc)
       ELSE /\ Return(<<Stepped("install_system_packages")>>)
            /\ signal' = signal
    /\ UNCHANGED <<repo, remote, online, runs, edits, sync, syncs>>
    /\ UNCHANGED <<configVars, fileVars, logVars>>

\* ShellEnvironment.install, lines 486-493: its git commands run through
\* run_command; warned: /etc/shells could not be read (lines 380-381)
ShellInstall(warned, rc) ==
    /\ ipc = "shell_env.install"
    /\ LET sig == RunCommand("git clone ohmyzsh", TRUE, rc)
           ev == <<Stepped("shell_env.install")>>
                 \o (IF warned THEN <<Logged("warning", "Could not update /etc/shells")>> ELSE <<>>)
                 \o RunEvents(sig)
       IN  /\ signal' = sig
           /\ IF sig.raised = "none"
              THEN Return(ev)
              ELSE Proc("done", todo, ev, IF sig.raised = "SystemExit" THEN "exit1" ELSE "raised")
    /\ UNCHANGED <<repo, remote, online, runs, edits, sync, syncs>>
    /\ UNCHANGED <<configVars, fileVars, logVars>>

\* PythonEnvironment.install, lines 573-577; warned: the Poetry installer,
\* run by subprocess.run directly, exited non-zero (lines 553-559)
PythonInstall(warned, rc) ==
    /\ ipc = "python_env.install"
    /\ LET sig == RunCommand("git clone pyenv", TRUE, rc)
           ev == <<Stepped("python_env.install")>> \o RunEvents(sig)
       IN  /\ signal' = sig
           /\ IF sig.raised = "none"
              THEN Return(ev \o (IF warned THEN <<Logged("warning", "Poetry installation failed")>>
                                           ELSE <<>>))
              ELSE Proc("done", todo, ev, IF sig.raised = "SystemExit" THEN "exit1" ELSE "raised")
    /\ UNCHANGED <<repo, remote, online, runs, edits, sync, syncs>>
    /\ UNCHANGED <<configVars, fileVars, logVars>>

\* DesktopEnvironment.install, lines 651-654: a font that cannot be
\* downloaded is a warning (lines 602-607); fc-cache runs through run_command
DesktopInstall(warned, rc) ==
    /\ ipc = "desktop_env.install"
    /\ ~online => warned
    /\ LET sig == RunCommand("fc-cache -fv", TRUE, rc)
           ev == << Stepped("desktop_env.install"), Download("nerd-fonts") >>
                 \o (IF warned THEN <<Logged("warning", "Failed to install font")>> ELSE <<>>)
                 \o RunEvents(sig)
       IN  /\ signal' = sig
           /\ IF sig.raised = "none"
              THEN Return(ev)
              ELSE Proc("done", todo, ev, IF sig.raised = "SystemExit" THEN "exit1" ELSE "raised")
    /\ UNCHANGED <<repo, remote, online, runs, edits, sync, syncs>>
    /\ UNCHANGED <<configVars, fileVars, logVars>>

\* show_completion, lines 836-843
ShowCompletion ==
    /\ ipc = "show_completion"
    /\ Return(<< Stepped("show_completion"), Logged("header", "Installation Complete!"),
                 Logged("info", "Log file: log_file") >>)
    /\ UNCHANGED <<repo, remote, online, signal, runs, edits, sync, syncs>>
    /\ UNCHANGED <<configVars, fileVars, logVars>>

(***************************************************************************)
(* clone_dotfiles, lines 705-751, one command at a time                    *)
(***************************************************************************)
\* lines 707-710 and 743-744
CloneEnter ==
    /\ ipc = "clone_dotfiles"
    /\ LET ev == <<Stepped("clone_dotfiles")>>
       IN  /\ Proc(IF repo.kind # "absent" THEN "line713" ELSE "line746", todo, ev, "running")
           /\ sync' = [repo |-> repo, remote |-> remote, edits |-> edits,
                    at |-> Len(events) + 1, run |-> runs]
    /\ UNCHANGED <<repo, remote, online, signal, runs, edits, syncs>>
    /\ UNCHANGED <<configVars, fileVars, logVars>>

\* one run_command call of clone_dotfiles with result res, going on as out says
GitStep(sig, res, out, ev) ==
    /\ signal' = sig
    /\ repo' = res.repo
    /\ Goto(out, RunEvents(sig) \o ev)
    /\ UNCHANGED <<remote, online, runs, edits, sync, syncs>>
    /\ UNCHANGED <<configVars, fileVars, logVars>>

\* line 713
CloneRevParse ==
    /\ ipc = "line713"
    /\ \E res \in GitRevParse(repo) :
          LET sig == RunCommand("git rev-parse --git-dir", TRUE, res.rc)
          IN  GitStep(sig, res, TryUpdate(sig, "line716"), <<>>)

\* lines 716-719 and 737
CloneStatus ==
    /\ ipc = "line716"
    /\ \E res \in GitStatus(repo) :
          LET sig == RunCommand("git status --porcelain", TRUE, res.rc)
              dirty == res.out # ""
          IN  GitStep(sig, res, TryUpdate(sig, IF dirty THEN "line720" ELSE "line738"),
                      IF sig.raised = "none" /\ dirty
                      THEN <<Logged("warning", "Uncommitted changes detected in dotfiles repository")>>
                      ELSE <<>>)

\* line 720
CloneStashPush ==
    /\ ipc = "line720"
    /\ \E res \in GitStashPush(repo, AutoStash, runs) :
          LET sig == RunCommand("git stash push -m " \o AutoStash, TRUE, res.rc)
          IN  GitStep(sig, res, TryUpdate(sig, "line724"), <<>>)

\* lines 723-724
ClonePullRebase ==
    /\ ipc = "line724"
    /\ \E res \in GitPull(repo, remote) :
          LET sig == RunCommand("git pull --rebase", TRUE, res.rc)
          IN  GitStep(sig, res, TryUpdate(sig, "line727"), <<>>)

\* lines 727-729
CloneStashList ==
    /\ ipc = "line727"
    /\ \E res \in GitStashList(repo) :
          LET sig == RunCommand("git stash list", TRUE, res.rc)
              found == \E i \in DOMAIN res.out : res.out[i] = AutoStash
          IN  GitStep(sig, res, TryUpdate(sig, IF found THEN "line731" ELSE "line751"), <<>>)

\* lines 730-734
CloneStashPop ==
    /\ ipc = "line731"
    /\ \E res \in GitStashPop(repo) :
          LET sig == RunCommand("git stash pop", TRUE, res.rc)
          IN  GitStep(sig, res, TryPop(sig), <<>>)

\* lines 737-738
ClonePull ==
    /\ ipc = "line738"
    /\ \E res \in GitPull(repo, remote) :
          LET sig == RunCommand("git pull", TRUE, res.rc)
          IN  GitStep(sig, res, TryUpdate(sig, "line751"), <<>>)

\* lines 743-749
CloneClone ==
    /\ ipc = "line746"
    /\ \E res \in GitClone(repo, remote) :
          LET sig == RunCommand("git clone", TRUE, res.rc)
          IN  GitStep(sig, res, TryClone(sig), <<>>)

\* the commands run_command was given from event number from on
Commands(ev, from) ==
    LET IsCmd(e) == e.kind = "cmd"
    IN  SelectSeq(SubSeq(ev, from, Len(ev)), IsCmd)

\* line 751: clone_dotfiles returns
CloneDone ==
    /\ ipc = "line751"
    /\ Return(<<Logged("success", "Dotfiles repository ready")>>)
    /\ syncs' = Append(syncs, [start |-> sync, cmds |-> Commands(events, sync.at),
                               repo |-> repo, edits |-> edits])
    /\ UNCHANGED <<repo, remote, online, signal, runs, edits, sync>>
    /\ UNCHANGED <<configVars, fileVars, logVars>>

(***************************************************************************)
(* Between processes: the user edits a tracked file, the remote gets a     *)
(* commit, the installer is started again.                                 *)
(***************************************************************************)
LocalEdit ==
    /\ ipc = "start"
    /\ edits < MaxEdits
    /\ repo.kind = "repo"
    /\ ~repo.mod
    /\ repo' = [repo EXCEPT !.mod = TRUE]
    /\ edits' = edits + 1
    /\ UNCHANGED <<remote, online, ipc, todo, events, status, signal, runs, sync, syncs>>
    /\ UNCHANGED <<configVars, fileVars, logVars>>

RemoteCommit ==
    /\ ipc = "start"
    /\ edits < MaxEdits
    /\ remote < MaxCommits
    /\ remote' = remote + 1
    /\ edits' = edits + 1
    /\ UNCHANGED <<repo, online, ipc, todo, events, status, signal, runs, sync, syncs>>
    /\ UNCHANGED <<configVars, fileVars, logVars>>

Restart ==
    /\ ipc = "done"
    /\ runs < MaxRuns
    /\ ipc' = "start"
    /\ todo' = <<>>
    /\ events' = <<>>
    /\ status' = "running"
    /\ signal' = NoSignal
    /\ UNCHANGED <<repo, remote, online, runs, edits, sync, syncs>>
    /\ UNCHANGED <<configVars, fileVars, logVars>>

\* the repositories a run may find: none, a plain directory, or a clone at
\* the first commit, clean or not, with nothing stashed, a stash of the
\* user's or one left by an earlier sync
InitialRepos ==
    { NoRepo, Repo("dir", 0, FALSE, FALSE, FALSE, <<>>) }
    \cup { Repo("repo", 0, m, u, FALSE, st) :
             m \in BOOLEAN, u \in BOOLEAN,
             st \in { <<>>, <<StashEntry("WIP on main", 0, 0)>>, <<StashEntry(AutoStash, 0, 0)>> } }

InitInstall ==
    /\ heap = InitHeap
    /\ configs = <<>>
    /\ fs = [p \in Paths |-> Absent]
    /\ parentDir = TRUE
    /\ now = 0
    /\ pc = "idle"
    /\ call = Call("none", NoPath, NoPath, FALSE, NoPath, fs)
    /\ ret = NoRet
    /\ log = <<>>
    /\ step = "Init"
    /\ repo \in InitialRepos
    /\ remote \in 0..1
    /\ online \in BOOLEAN
    /\ ipc = "start"
    /\ todo = <<>>
    /\ events = <<>>
    /\ status = "running"
    /\ signal = NoSignal
    /\ runs = 0
    /\ edits = 0
    /\ sync = NoSync
    /\ syncs = <<>>
    /\ loggers = <<>>
    /\ logfiles = NoLogFiles

NextInstall ==
    \/ \E argv \in Argvs, d \in BOOLEAN : Main(argv, d)
    \/ \E c \in Choices, d \in BOOLEAN :
          /\ c \in {"1", "2", "3", "4", "q", "Q"} \/ MenusShown + 1 < MaxMenus
          /\ RunInteractive(c, d)
    \/ \E m \in BOOLEAN, pm \in BOOLEAN, u \in 0..1, i \in 0..1 : CheckPrerequisitesInstall(m, pm, u, i)
    \/ CheckPrerequisitesProbe
    \/ SetupDirectories
    \/ CloneEnter
    \/ CloneRevParse
    \/ CloneStatus
    \/ CloneStashPush
    \/ ClonePullRebase
    \/ CloneStashList
    \/ CloneStashPop
    \/ ClonePull
    \/ CloneClone
    \/ CloneDone
    \/ \E pm \in BOOLEAN, rc \in 0..1 : InstallSystemPackages(pm, rc)
    \/ \E w \in BOOLEAN, rc \in 0..1 : ShellInstall(w, rc)
    \/ \E w \in BOOLEAN, rc \in 0..1 : PythonInstall(w, rc)
    \/ \E w \in BOOLEAN, rc \in 0..1 : DesktopInstall(w, rc)
    \/ ShowCompletion
    \/ LocalEdit
    \/ RemoteCommit
    \/ Restart

SpecInstall == InitInstall /\ [][NextInstall]_vars

(***************************************************************************)
(* Claims about the installer (checked under SpecInstall)                  *)
(***************************************************************************)
Clean(r) == r.kind = "repo" /\ ~r.mod /\ ~r.untracked /\ ~r.conflict

PlainPullPath == <<Cmd("git rev-parse --git-dir"), Cmd("git status --porcelain"), Cmd("git pull")>>

\* the second of two clone_dotfiles calls in a row that returned, the first
\* starting from a clean working tree, with no local edit and no new remote
\* commit from the start of the first to the end of the second
QuietPair(i) ==
    /\ i \in 1..(Len(syncs) - 1)
    /\ Clean(syncs[i].start.repo)
    /\ syncs[i + 1].edits = syncs[i].start.edits

\* C11: two clone_dotfiles calls in a row on an existing repository with a
\* clean working tree, no local edit and no new remote commit in between,
\* both take the plain-pull path (rev-parse, status, pull: no clone, no stash
\* push or pop), leave the stash list as it was, and the local HEAD after the
\* second call is the HEAD after the first.
C11_TwiceIsPlainPull ==
    \A i \in 1..(Len(syncs) - 1) :
        QuietPair(i) =>
            /\ syncs[i].cmds = PlainPullPath
            /\ syncs[i + 1].cmds = PlainPullPath
            /\ syncs[i].repo.stash = syncs[i].start.repo.stash
            /\ syncs[i + 1].repo.stash = syncs[i].start.repo.stash
            /\ syncs[i + 1].repo.head = syncs[i].repo.head

\* two such calls, the first of which pulled a commit, with a stash entry of
\* the user's in the list
C11_Witness ==
    /\ Len(syncs) = 2
    /\ QuietPair(1)
    /\ syncs[1].start.repo.stash # <<>>
    /\ syncs[1].repo.head # syncs[1].start.repo.head

\* the clone_dotfiles call of this process has started
ThisSync ==
    /\ sync.at > 0
    /\ Len(events) >= sync.at
    /\ events[sync.at] = Stepped("clone_dotfiles")

IsPrefix(a, b) == Len(a) <= Len(b) /\ a = SubSeq(b, 1, Len(a))

StashPush == Cmd("git stash push -m Auto-stash before pull")

\* of the commands given to run_command, those that stash, pull or clone
SyncOps(cmds) ==
    LET IsOp(e) == e \in {StashPush, Cmd("git pull --rebase"), Cmd("git pull"),
                          Cmd("git stash pop"), Cmd("git clone")}
    IN  SelectSeq(cmds, IsOp)

StashPullPop == <<StashPush, Cmd("git pull --rebase"), Cmd("git stash pop")>>

\* a call that starts with an uncommitted modification of a tracked file
\* while the remote has a commit the repository has not
DirtyBehind(st) ==
    /\ st.repo.kind = "repo"
    /\ st.repo.mod
    /\ ~st.repo.conflict
    /\ st.remote > st.repo.head

\* C12: a sync that starts with uncommitted local modifications and a new
\* remote commit issues stash push (labelled "Auto-stash before pull"), pull
\* --rebase and stash pop in this order and nothing else that stashes, pulls
\* or clones; when the reapply did not conflict, the call ends with the remote
\* commit checked out, the local modification in the working tree and no
\* stash entry made by this call left.
C12_DirtySyncStashPullPop ==
    /\ (ThisSync /\ DirtyBehind(sync)) =>
           IsPrefix(SyncOps(Commands(events, sync.at)), StashPullPop)
    /\ \A i \in DOMAIN syncs :
           (DirtyBehind(syncs[i].start) /\ ~syncs[i].repo.conflict) =>
               /\ SyncOps(syncs[i].cmds) = StashPullPop
               /\ syncs[i].repo.head = syncs[i].start.remote
               /\ syncs[i].repo.mod
               /\ \A k \in DOMAIN syncs[i].repo.stash :
                      syncs[i].repo.stash[k].by # syncs[i].start.run

\* such a sync returned, in a repository that had a stash entry before
C12_Witness ==
    \E i \in DOMAIN syncs :
        /\ DirtyBehind(syncs[i].start)
        /\ syncs[i].start.repo.stash # <<>>
        /\ syncs[i].repo.head = syncs[i].start.remote

HasEvent(e) == \E i \in DOMAIN events : events[i] = e

\* a command of this process, given to run_command, exited non-zero
Failed(cmds) == signal.cmd \in cmds /\ signal.rc # 0

\* the process has ended, by sys.exit(1) or by an uncaught exception
Terminated == status \in {"exit1", "raised"}

\* C13: when git stash pop exits non-zero the sync is not fatal: the user is
\* told to resolve manually and the process goes on (it has not terminated).
C13_PopConflictNonFatal ==
    Failed({"git stash pop"}) =>
        /\ ~Terminated
        /\ HasEvent(Logged("warning", "Conflicts detected when applying stash. Please resolve manually."))

\* C14: when the status query, the stash push or a pull of an existing
\* repository fails, the failure is logged and the process goes on with the
\* existing copy: it has not terminated.
C14_UpdateFailureNonFatal ==
    Failed({"git status --porcelain", "git stash push -m Auto-stash before pull",
            "git pull --rebase", "git pull"}) =>
        /\ ~Terminated
        /\ HasEvent(Logged("info", "Continuing with existing dotfiles..."))

\* the clone_dotfiles call of this process is over
SyncOver == ThisSync /\ ipc \notin {"line713", "line716", "line720", "line724", "line727",
                                    "line731", "line738", "line746", "line751"}

\* C15: a sync that finds no repository at the path, because the path does
\* not exist or because it exists without being a repository, has run git
\* clone by the time it is over.
C15_CloneWhenNoRepository ==
    (SyncOver /\ sync.repo.kind \in {"absent", "dir"}) =>
        Cmd("git clone") \in {events[i] : i \in sync.at..Len(events)}

\* C16: when the initial git clone fails the process ends with exit code 1,
\* the failure is in the log as an error, and no step of the profile has
\* started after clone_dotfiles.
C16_CloneFailureFatal ==
    Failed({"git clone"}) =>
        /\ status = "exit1"
        /\ ipc = "done"
        /\ HasEvent(Logged("error", "Command failed: git clone"))
        /\ \A i \in (sync.at + 1)..Len(events) : events[i].kind # "step"

\* the clone failed in a profile that has steps left to run
C16_Witness ==
    /\ Failed({"git clone"})
    /\ ThisSync
    /\ Len(todo) > 1

\* C17: a command that exits non-zero under check=true ends run_command with
\* a CalledProcessError delivered to the caller; under check=false the result
\* is returned.
C17_FailureDeliveredToCaller ==
    signal.rc # 0 =>
        signal.raised = (IF signal.check THEN "CalledProcessError" ELSE "none")

\* the steps this process has started, in order
StepsRun ==
    LET IsStep(e) == e.kind = "step"
        ss == SelectSeq(events, IsStep)
    IN  [i \in DOMAIN ss |-> ss[i].what]

\* the profiles as documented: prerequisites, directories, repository sync,
\* system packages, shell, toolchain, desktop (when there is one), completion
DocumentedFull ==
    { << "check_prerequisites", "setup_directories", "clone_dotfiles", "install_system_packages",
         "shell_env.install", "python_env.install", "show_completion" >>,
      << "check_prerequisites", "setup_directories", "clone_dotfiles", "install_system_packages",
         "shell_env.install", "python_env.install", "desktop_env.install", "show_completion" >> }

DocumentedShell ==
    { << "check_prerequisites", "setup_directories", "clone_dotfiles", "shell_env.install",
         "show_completion" >> }

DocumentedToolchain == { <<"check_prerequisites", "python_env.install", "show_completion">> }

\* the process runs one of the profiles P: what it has run is the beginning of
\* one of them, and all of it once main has returned
Runs(P) ==
    /\ \E p \in P : IsPrefix(StepsRun, p)
    /\ status = "returned" => StepsRun \in P
    /\ ~HasEvent(MenuShown)

\* C18: main dispatches on its first argument: --help and -h print the usage
\* and exit 0, an argument it does not know prints an error and exits 1, in
\* both cases without any installation step; --full, --shell and --python run
\* exactly the full, shell-only and toolchain-only profile; without an
\* argument the menu is entered.
C18_MainDispatch ==
    events # <<>> =>
        LET arg == events[1]
        IN  /\ arg.kind \in {"argv", "noargv"}
            /\ (arg.kind = "argv" /\ arg.what \in {"--help", "-h"}) =>
                   status = "exit0" /\ events = <<arg, Printed(Usage)>>
            /\ (arg.kind = "argv" /\ arg.what = "--full") => Runs(DocumentedFull)
            /\ (arg.kind = "argv" /\ arg.what = "--shell") => Runs(DocumentedShell)
            /\ (arg.kind = "argv" /\ arg.what = "--python") => Runs(DocumentedToolchain)
            /\ (arg.kind = "argv" /\ arg.what \notin {"--help", "-h", "--full", "--shell", "--python"}) =>
                   /\ status = "exit1"
                   /\ Len(events) = 2
                   /\ events[2].kind = "print"
            /\ arg.kind = "noargv" =>
                   /\ ipc = "menu" \/ HasEvent(MenuShown)
                   /\ Len(events) > 1 => events[2] = MenuShown

\* main was given an argument it does not know, in a second process, after
\* the first ran a profile through its repository sync
C18_Witness ==
    /\ runs = 2
    /\ Len(events) = 2
    /\ events[1] = Started(<<"--bogus">>)
    /\ status = "exit1"
    /\ syncs # <<>>

\* the process is over and had started at least one step of a profile
RunOver == ipc = "done" /\ StepsRun # <<>>

\* C19: in every profile, when there is no connectivity the run ends with
\* exit code 1 without having executed a package-manager, download or
\* repository command.
C19_ProbeGatesTheRun ==
    (RunOver /\ ~online) =>
        /\ status = "exit1"
        /\ \A i \in DOMAIN events : events[i].kind \notin {"cmd", "download"}

\* C20: every profile run that main returns from ends with the completion
\* summary, whose last line names the log file.
C20_EndsWithCompletionSummary ==
    (RunOver /\ status = "returned") =>
        /\ StepsRun[Len(StepsRun)] = "show_completion"
        /\ events[Len(events)] = Logged("info", "Log file: log_file")

(***************************************************************************)
(* The components: ShellEnvironment.install and DesktopEnvironment.install,*)
(* one external command at a time.                                         *)
(***************************************************************************)
repoVars == <<repo, remote, online, runs, edits, sync, syncs>>

\* ShellEnvironment.install, lines 486-493
ShellParts ==
    << "install_zsh", "install_oh_my_zsh", "install_zsh_plugins", "install_tmux",
       "install_cli_tools", "setup_dotfiles" >>

\* DesktopEnvironment.install, lines 651-654
DesktopParts == <<"install_fonts", "setup_keyboard">>

\* lines 412-417
Plugins == <<"zsh-autosuggestions", "zsh-syntax-highlighting", "zsh-completions", "fzf-tab">>

\* line 594
Fonts == <<"FiraCode", "JetBrainsMono", "Iosevka">>

\* how the process ends when sig leaves run_command and nothing catches it
Uncaught(sig) == IF sig.raised = "SystemExit" THEN "exit1" ELSE "raised"

\* try: run_command(...) except Exception as e: self.logger.warning(...)
TryWarn(sig, next, text) ==
    IF sig.raised = "none" THEN Outcome(next, "running", <<>>)
    ELSE IF sig.raised = "SystemExit" THEN Exit1(<<>>)
    ELSE Outcome(next, "running", <<Logged("warning", text)>>)

\* the outcome out, where "return" stands for the end of the component's method
Continue(out, ev) ==
    IF out.ipc = "return" THEN Return(ev \o out.logs) ELSE Goto(out, ev)

\* install_zsh, lines 365-373: zsh is there or not (hasZsh), a package
\* manager too (manager), pm install exits with rc, and shutil.which finds
\* zsh afterwards or not (found)
InstallZshPackage(hasZsh, manager, rc, found) ==
    /\ ipc = "install_zsh"
    /\ hasZsh => found
    /\ LET st == <<Stepped("install_zsh")>>
           ins == RunCommand("pm install zsh", TRUE, rc)
           lost == Logged("error", "Failed to find Zsh after installation")
       IN  IF hasZsh
           THEN /\ signal' = signal
                /\ Proc("line376", todo, st, "running")
           ELSE IF ~manager
           THEN /\ signal' = signal
                /\ Proc("done", todo, st \o <<Logged("error", "No package manager found")>>, "exit1")
           ELSE /\ signal' = ins
                /\ IF ins.raised # "none"
                   THEN Proc("done", todo, st \o RunEvents(ins), Uncaught(ins))
                   ELSE IF found
                   THEN Proc("line376", todo, st \o RunEvents(ins), "running")
                   ELSE Proc("done", todo, st \o RunEvents(ins) \o <<lost>>, "exit1")
    /\ UNCHANGED repoVars
    /\ UNCHANGED <<configVars, fileVars, logVars>>

\* install_zsh, lines 376-381: /etc/shells lists zsh ("yes"), does not
\* ("no") or cannot be read ("unreadable")
InstallZshShells(listed, rc) ==
    /\ ipc = "line376"
    /\ IF listed = "no"
       THEN LET sig == RunCommand("sudo tee -a /etc/shells", TRUE, rc)
            IN  /\ signal' = sig
                /\ Goto(TryWarn(sig, "line384", "Could not update /etc/shells"), RunEvents(sig))
       ELSE /\ signal' = signal
            /\ Proc("line384", todo,
                    IF listed = "unreadable"
                    THEN <<Logged("warning", "Could not update /etc/shells")>> ELSE <<>>,
                    "running")
    /\ UNCHANGED repoVars
    /\ UNCHANGED <<configVars, fileVars, logVars>>

\* install_zsh, lines 384-390: zsh is the login shell already or chsh is run
InstallZshChsh(isDefault, rc) ==
    /\ ipc = "line384"
    /\ IF isDefault
       THEN /\ signal' = signal
            /\ Return(<<>>)
       ELSE LET sig == RunCommand("chsh -s zsh", TRUE, rc)
            IN  /\ signal' = sig
                /\ Continue(TryWarn(sig, "return", "Could not change shell"),
                            RunEvents(sig)
                            \o (IF sig.raised = "none"
                                THEN <<Logged("success", "Set Zsh as default shell")>> ELSE <<>>))
    /\ UNCHANGED repoVars
    /\ UNCHANGED <<configVars, fileVars, logVars>>

\* git pull in a directory that exists, git clone --depth=1 into one that does not
Fetch(name, exists) ==
    IF exists THEN "git pull [" \o name \o "]" ELSE "git clone --depth=1 " \o name

\* install_oh_my_zsh, lines 392-404
InstallOhMyZsh(exists, rc) ==
    /\ ipc = "install_oh_my_zsh"
    /\ CommandStep("install_oh_my_zsh", Fetch("ohmyzsh", exists), rc)
    /\ UNCHANGED repoVars
    /\ UNCHANGED <<configVars, fileVars, logVars>>

\* how many events of the set S the process has left
Count(S) == Cardinality({i \in DOMAIN events : events[i] \in S})

PluginCmds == {Cmd(Fetch(Plugins[i], e)) : i \in DOMAIN Plugins, e \in BOOLEAN}

\* install_zsh_plugins, lines 419-426: one turn of the loop
InstallZshPlugin(exists, rc) ==
    /\ ipc = "install_zsh_plugins"
    /\ LET i == Count(PluginCmds) + 1
           sig == RunCommand(Fetch(Plugins[i], exists), TRUE, rc)
           st == IF i = 1 THEN <<Stepped("install_zsh_plugins")>> ELSE <<>>
       IN  /\ signal' = sig
           /\ IF sig.raised = "none"
              THEN Proc(IF i = Len(Plugins) THEN "line429" ELSE "install_zsh_plugins", todo,
                        st \o RunEvents(sig), "running")
              ELSE Proc("done", todo, st \o RunEvents(sig), Uncaught(sig))
    /\ UNCHANGED repoVars
    /\ UNCHANGED <<configVars, fileVars, logVars>>

\* install_zsh_plugins, lines 429-438
InstallPowerlevel10k(exists, rc) ==
    /\ ipc = "line429"
    /\ LET sig == RunCommand(Fetch("powerlevel10k", exists), TRUE, rc)
       IN  /\ signal' = sig
           /\ IF sig.raised = "none"
              THEN Return(RunEvents(sig) \o <<Logged("success", "Zsh plugins installed")>>)
              ELSE Proc("done", todo, RunEvents(sig), Uncaught(sig))
    /\ UNCHANGED repoVars
    /\ UNCHANGED <<configVars, fileVars, logVars>>

\* install_tmux, lines 440-454
InstallTmux(rc) ==
    /\ ipc = "install_tmux"
    /\ CommandStep("install_tmux", Fetch("tpm", FALSE), rc)
    /\ UNCHANGED repoVars
    /\ UNCHANGED <<configVars, fileVars, logVars>>

\* install_cli_tools, lines 456-470
InstallCliTools(manager, rc) ==
    /\ ipc = "install_cli_tools"
    /\ IF manager
       THEN CommandStep("install_cli_tools", "pm install tools", rc)
       ELSE /\ signal' = signal
            /\ Proc("done", todo, << Stepped("install_cli_tools"),
                                     Logged("error", "No package manager found") >>, "exit1")
    /\ UNCHANGED repoVars
    /\ UNCHANGED <<configVars, fileVars, logVars>>

\* setup_dotfiles, lines 472-484 (FileManager.symlink is SymlinkEnter and on)
SetupDotfiles ==
    /\ ipc = "setup_dotfiles"
    /\ Return(<<Stepped("setup_dotfiles")>>)
    /\ UNCHANGED signal
    /\ UNCHANGED repoVars
    /\ UNCHANGED <<configVars, fileVars, logVars>>

FontDownloads == {Download(Fonts[i]) : i \in DOMAIN Fonts}

\* install_fonts, lines 597-607: one turn of the loop; the archive is
\* downloaded or urlretrieve raises, tar exits with rc
InstallFont(downloaded, rc) ==
    /\ ipc = "install_fonts"
    /\ downloaded => online
    /\ LET i == Count(FontDownloads) + 1
           next == IF i = Len(Fonts) THEN "line610" ELSE "install_fonts"
           sig == RunCommand("tar -xf " \o Fonts[i], TRUE, rc)
           st == (IF i = 1 THEN <<Stepped("install_fonts")>> ELSE <<>>) \o <<Download(Fonts[i])>>
           failed == "Failed to install " \o Fonts[i]
       IN  IF downloaded
           THEN /\ signal' = sig
                /\ Goto(TryWarn(sig, next, failed), st \o RunEvents(sig))
           ELSE /\ signal' = signal
                /\ Proc(next, todo, st \o <<Logged("warning", failed)>>, "running")
    /\ UNCHANGED repoVars
    /\ UNCHANGED <<configVars, fileVars, logVars>>

\* install_fonts, lines 610-611
FontCache(rc) ==
    /\ ipc = "line610"
    /\ LET sig == RunCommand("fc-cache -fv", TRUE, rc)
       IN  /\ signal' = sig
           /\ IF sig.raised = "none"
              THEN Return(RunEvents(sig) \o <<Logged("success", "Fonts installed")>>)
              ELSE Proc("done", todo, RunEvents(sig), Uncaught(sig))
    /\ UNCHANGED repoVars
    /\ UNCHANGED <<configVars, fileVars, logVars>>

\* setup_keyboard, lines 613-649
SetupKeyboard(rc) ==
    /\ ipc = "setup_keyboard"
    /\ CommandStep("setup_keyboard", "setxkbmap -option caps:escape", rc)
    /\ UNCHANGED repoVars
    /\ UNCHANGED <<configVars, fileVars, logVars>>

InitComponents ==
    /\ heap = InitHeap
    /\ configs = <<>>
    /\ fs = [p \in Paths |-> Absent]
    /\ parentDir = TRUE
    /\ now = 0
    /\ pc = "idle"
    /\ call = Call("none", NoPath, NoPath, FALSE, NoPath, fs)
    /\ ret = NoRet
    /\ log = <<>>
    /\ step = "Init"
    /\ repo = NoRepo
    /\ remote = 0
    /\ online \in BOOLEAN
    /\ \E parts \in {ShellParts, DesktopParts} :
          /\ ipc = Head(parts)
          /\ todo = Tail(parts)
    /\ events = <<>>
    /\ status = "running"
    /\ signal = NoSignal
    /\ runs = 1
    /\ edits = 0
    /\ sync = NoSync
    /\ syncs = <<>>
    /\ loggers = <<>>
    /\ logfiles = NoLogFiles

NextComponents ==
    \/ \E z \in BOOLEAN, pm \in BOOLEAN, rc \in 0..1, f \in BOOLEAN : InstallZshPackage(z, pm, rc, f)
    \/ \E l \in {"yes", "no", "unreadable"}, rc \in 0..1 : InstallZshShells(l, rc)
    \/ \E d \in BOOLEAN, rc \in 0..1 : InstallZshChsh(d, rc)
    \/ \E e \in BOOLEAN, rc \in 0..1 : InstallOhMyZsh(e, rc)
    \/ \E e \in BOOLEAN, rc \in 0..1 : InstallZshPlugin(e, rc)
    \/ \E e \in BOOLEAN, rc \in 0..1 : InstallPowerlevel10k(e, rc)
    \/ \E rc \in 0..1 : InstallTmux(rc)
    \/ \E pm \in BOOLEAN, rc \in 0..1 : InstallCliTools(pm, rc)
    \/ SetupDotfiles
    \/ \E d \in BOOLEAN, rc \in 0..1 : InstallFont(d, rc)
    \/ \E rc \in 0..1 : FontCache(rc)
    \/ \E rc \in 0..1 : SetupKeyboard(rc)

SpecComponents == InitComponents /\ [][NextComponents]_vars

(***************************************************************************)
(* Claims about the components (checked under SpecComponents)              *)
(***************************************************************************)
\* the commands that install one font, install or update one plugin, or
\* change the default shell
OptionalCmds ==
    {"tar -xf " \o Fonts[i] : i \in DOMAIN Fonts}
    \cup {Fetch(Plugins[i], e) : i \in DOMAIN Plugins, e \in BOOLEAN}
    \cup {"chsh -s zsh"}

\* C21: a failure while installing one font (the download or the unpacking),
\* one shell plugin, or while changing the default shell is logged as a
\* warning and does not stop the run: the process has not terminated.
C21_OptionalFailureIsWarning ==
    Failed(OptionalCmds) =>
        /\ ~Terminated
        /\ \E i \in DOMAIN events : events[i].kind = "warning"

(***************************************************************************)
(* Claims about the profiles (checked under SpecInstall)                   *)
(***************************************************************************)
StepNames ==
    { "check_prerequisites", "setup_directories", "clone_dotfiles", "install_system_packages",
      "shell_env.install", "python_env.install", "desktop_env.install", "show_completion" }

\* C22: each profile is a fixed linear sequence of steps: full is
\* prerequisites, directories, repository sync, system packages, shell,
\* toolchain, desktop when one is detected, completion; shell-only is
\* prerequisites, directories, repository sync, shell, completion;
\* toolchain-only is prerequisites, toolchain, completion.  The steps run and
\* those still to come (plan) always make up one of these sequences, so that every
\* step starts after the one before it returned, none runs twice and none
\* from outside the profile runs; main returns when all of them have run.
C22_ProfilesAreLinear ==
    LET run == StepsRun
        plan == run \o (IF ipc \in StepNames THEN <<ipc>> ELSE <<>>) \o todo
        last == run[Len(run)]
    IN  /\ (plan # <<>> /\ plan[1] = "check_prerequisites") =>
               /\ plan \in DocumentedFull \cup DocumentedShell \cup DocumentedToolchain
               /\ \A i, j \in DOMAIN run : run[i] = run[j] => i = j
               /\ status = "returned" => todo = <<>> /\ run = plan
        /\ (events # <<>> /\ events[1] = Started(<<"--full">>)) => plan \in DocumentedFull
        /\ (events # <<>> /\ events[1] = Started(<<"--shell">>)) => plan \in DocumentedShell
        /\ (events # <<>> /\ events[1] = Started(<<"--python">>)) => plan \in DocumentedToolchain
        /\ ipc = "line684" => last = "check_prerequisites"
        /\ ipc \in {"line713", "line716", "line720", "line724", "line727", "line731", "line738",
                    "line746", "line751"} => last = "clone_dotfiles"

\* the full profile with the desktop step, chosen from the menu, ran to its end
C22_Witness ==
    /\ status = "returned"
    /\ HasEvent(MenuShown)
    /\ Len(StepsRun) = 8

(***************************************************************************)
(* The menu alone: main without an argument and run_interactive, for every *)
(* sequence of answers.                                                    *)
(***************************************************************************)
NextMenu ==
    \/ \E d \in BOOLEAN : Main(<<>>, d)
    \/ \E c \in Choices, d \in BOOLEAN : RunInteractive(c, d)

SpecMenu == InitConfig /\ [][NextMenu]_vars

\* C23: in interactive mode, whatever the answers: an answer other than 1,
\* 2, 3, 4, q or Q logs a warning and the menu is shown again, no step having
\* run; the first answer in 1-4 starts exactly one of the profiles and the
\* menu is not shown after that; q or Q exits with code 0 without any step.
C23_MenuLoop ==
    LET run == StepsRun
        plan == run \o (IF ipc \in StepNames THEN <<ipc>> ELSE <<>>) \o todo
        invalid == Logged("warning", "Invalid choice")
        steps == {j \in DOMAIN events : events[j].kind = "step"}
        menus == {i \in DOMAIN events : events[i] \in {MenuShown, invalid}}
    IN  /\ \A i \in DOMAIN events :
               events[i] = invalid =>
                   IF i < Len(events)
                   THEN events[i + 1] = MenuShown
                   ELSE ipc = "menu" /\ status = "running"
        /\ \A j \in steps : \A i \in menus : i < j
        /\ (menus # {} /\ plan # <<>>) =>
               plan \in DocumentedFull \cup DocumentedShell \cup DocumentedToolchain
                        \cup {<<"desktop_env.install">>}
        /\ HasEvent(Logged("info", "Installation cancelled")) =>
               status = "exit0" /\ run = <<>>

(***************************************************************************)
(* The log: every class builds its own Logger() (no log_file argument), and *)
(* run_command builds one more when a command fails.                       *)
(***************************************************************************)
MaxRecords == 2

\* the Logger() calls of DotfilesInstaller.__init__, lines 662-670, in order:
\* its own, then those of the objects it builds
LoggerOwners ==
    << "installer", "pm", "fm", "shell_env", "shell_env.pm", "shell_env.fm",
       "python_env", "python_env.pm", "desktop_env", "desktop_env.pm" >>

\* Logger.__init__ without log_file, lines 141-142: /tmp/dotfiles_<timestamp>.log,
\* the timestamp being the clock cut to whole seconds
Logger(owner, t) == [owner |-> owner, file |-> Timestamp(t)]

\* Logger._log, lines 151-152: open(self.log_file, 'a') and write one line
WriteLine(files, f, line) ==
    IF f \in DOMAIN files
    THEN [files EXCEPT ![f] = Append(@, line)]
    ELSE [g \in DOMAIN files \cup {f} |-> IF g = f THEN <<line>> ELSE files[g]]

\* a line of a log file: who logged it and what; names is the log file a
\* completion summary names
Line(owner, text, names) == [by |-> owner, text |-> text, names |-> names]

LinesWritten ==
    LET RECURSIVE Sum(_)
        Sum(S) == IF S = {} THEN 0
                  ELSE LET f == CHOOSE g \in S : TRUE IN Len(logfiles[f]) + Sum(S \ {f})
    IN  Sum(DOMAIN logfiles)

\* DotfilesInstaller.__init__: the next Logger() call
NewLogger ==
    /\ ipc = "start"
    /\ Len(loggers) < Len(LoggerOwners)
    /\ loggers' = Append(loggers, Logger(LoggerOwners[Len(loggers) + 1], now))
    /\ UNCHANGED logfiles
    /\ UNCHANGED <<configVars, fileVars, installVars>>

\* main goes on once the installer is built
Built ==
    /\ ipc = "start"
    /\ Len(loggers) = Len(LoggerOwners)
    /\ ipc' = "main"
    /\ UNCHANGED <<repo, remote, online, todo, events, status, signal, runs, edits, sync, syncs>>
    /\ UNCHANGED <<configVars, fileVars, logVars>>

\* a component logs a record through its own logger (info, success, warning)
Emit(k) ==
    /\ ipc = "main"
    /\ LinesWritten < MaxRecords
    /\ logfiles' = WriteLine(logfiles, loggers[k].file, Line(loggers[k].owner, "record", loggers[k].file))
    /\ UNCHANGED loggers
    /\ UNCHANGED <<configVars, fileVars, installVars>>

\* run_command, lines 858-868: a command failed; Logger().error(error_msg)
RunCommandError ==
    /\ ipc = "main"
    /\ LET l == Logger("run_command", now)
       IN  /\ loggers' = Append(loggers, l)
           /\ logfiles' = WriteLine(logfiles, l.file, Line(l.owner, "Command failed", l.file))
    /\ ipc' = "done"
    /\ status' = IF LoggerError(ErrorExitDefault) = "SystemExit" THEN "exit1" ELSE "raised"
    /\ UNCHANGED <<repo, remote, online, todo, events, signal, runs, edits, sync, syncs>>
    /\ UNCHANGED <<configVars, fileVars>>

\* show_completion, line 843: the installer's logger names its own log file
CompletionSummary ==
    /\ ipc = "main"
    /\ logfiles' = WriteLine(logfiles, loggers[1].file, Line(loggers[1].owner, "Log file", loggers[1].file))
    /\ ipc' = "done"
    /\ status' = "returned"
    /\ UNCHANGED loggers
    /\ UNCHANGED <<repo, remote, online, todo, events, signal, runs, edits, sync, syncs>>
    /\ UNCHANGED <<configVars, fileVars>>

NextLog ==
    \/ NewLogger
    \/ Built
    \/ \E k \in DOMAIN loggers : Emit(k)
    \/ RunCommandError
    \/ CompletionSummary
    \/ Tick

SpecLog == InitConfig /\ [][NextLog]_vars

\* C24: one session file per run, append-only: all the lines written during
\* the run are in one and the same log file, the one the completion summary
\* names, and a step never alters or removes a line already written.
C24_OneAppendOnlySessionFile ==
    /\ [](/\ Cardinality(DOMAIN logfiles) <= 1
          /\ \A f \in DOMAIN logfiles : \A i \in DOMAIN logfiles[f] : logfiles[f][i].names = f)
    /\ [][\A f \in DOMAIN logfiles :
              /\ f \in DOMAIN logfiles'
              /\ IsPrefix(logfiles[f], logfiles'[f])]_vars

(***************************************************************************)
(* C25                                                                     *)
(***************************************************************************)
IsSuffix(a, b) == Len(a) <= Len(b) /\ a = SubSeq(b, Len(b) - Len(a) + 1, Len(b))

\* C25: a sync pops only a stash entry it made itself: the entries that were
\* in the stash when clone_dotfiles was called (the user's, or one left by an
\* earlier run) are all still there, in the same order, at every point of the
\* call and after it; in particular when the only uncommitted change is an
\* untracked file, so that the sync's own stash push saves nothing.
C25_PopsOnlyItsOwnStash ==
    ThisSync => IsSuffix(sync.repo.stash, repo.stash)

(***************************************************************************)
(* C26                                                                     *)
(***************************************************************************)
\* the paths at which filesystem f has something
OnDisk(f) == {q \in DOMAIN f : f[q].kind # "absent"}

\* C26: symlink(source, target), called when target is already a symlink to
\* the resolved source, returns with target still that symlink and with the
\* same files on disk as before the call: no backup artifact is added.
C26_SymlinkIdempotent ==
    [][(SymlinkReturns /\ call.backup /\ call.old[call.target] = Link(call.resolved)) =>
          /\ fs'[call.target] = Link(call.resolved)
          /\ OnDisk(fs') = OnDisk(call.old)
          /\ Artifacts(fs', call.target) = Artifacts(call.old, call.target)]_vars

====
